---- MODULE Spec2Model ----
(***************************************************************************)
(* A model of supamigrate: the SQL rewrite (src/db/transform.rs), the load *)
(* stage (src/db/restore.rs), the storage client and transfer engine       *)
(* (src/storage/client.rs, src/storage/transfer.rs) and the migrate,       *)
(* backup and restore runs (src/commands/*.rs).                            *)
(***************************************************************************)
EXTENDS Integers, Sequences, FiniteSets, TLC

VARIABLES
    \* ---- SqlTransformer (src/db/transform.rs)
    sql,        \* the snapshot text handed to transform, a sequence of tokens
    result,     \* transform(sql), once computed
    again,      \* transform(result), once computed
    tpc,        \* "input" | "once" | "twice"
    \* ---- StorageTransfer (src/storage/transfer.rs) and the two object stores
    mode,           \* "sync" (sync_all, sync_bucket) | "download" (download_all,
                    \* download_bucket)
    bucket_arg,     \* `bucket: Option<&str>` of storage sync / storage download:
                    \* the one bucket to move, or none for all buckets
    parallel,       \* StorageTransfer.parallel
    srcBuckets,     \* the source store: its buckets, in listing order
    targetBuckets,  \* the target store: its set of buckets
    stored,         \* objects held by the destination (target store or local dir)
    pc,             \* position of the run
    cause,          \* the call whose error ended the run, when pc = "error"
    buckets,        \* Vec<Bucket> returned by list_buckets
    bi,             \* index of the bucket the for loop is at
    objects,        \* Vec<StorageObject> enumerated for the current bucket
    task,           \* state of each object move of the current bucket
    nextObj,        \* number of futures pulled from stream::iter so far
    results,        \* Vec<Result<usize>>, in completion order
    pb,             \* position of the progress bar
    bucket_stats,   \* SyncStats returned for the current bucket
    stats,          \* SyncStats accumulated by sync_all / download_all
    starts,         \* history: how often each object's move was started
    failures,       \* history: number of object moves that failed in the run
    \* ---- repeated StorageClient::create_bucket calls
    cb,             \* the last create_bucket call: its arguments, answer and result
    firstAfter,     \* history: per name, the target's buckets of that name after
                    \* the first call for it that returned Ok
    \* ---- the migrate, backup and restore runs (src/commands/*.rs)
    cmd,            \* "migrate" | "backup" | "restore"
    args,           \* the command's arguments and the configuration it reads
    rpc,            \* position of the run
    events,         \* history: the stages' starts and ends, in order
    load,           \* the last PgRestore call: what psql did and the result
    outcome,        \* "running" | "Ok" | "Err": what run returned
    input,          \* what the user typed at the confirmation prompt, if asked
    backup_dir,     \* the files and directories the backup run has written
    dump,           \* the last PgDump call: the flags passed to pg_dump, what
                    \* pg_dump did and the result
    \* ---- restore_functions and FunctionsClient::deploy_function
    registry,       \* the target's function registry: its functions
    artifacts,      \* the function directories of the backup, in read_dir order
    fi,             \* index of the directory the for loop is at
    fpc,            \* position of restore_functions
    fcause,         \* the call whose error ended restore_functions
    request,        \* the last deploy_function call: the list it fetched, the
                    \* request it chose and the registry's answer
    fstats,         \* FunctionsRestoreStats.functions
    frun,           \* number of the restore being run against the target
    attempted,      \* history: the directories deploy_function was called for
    ffails,         \* history: number of deploys the registry refused
    \* ---- one StorageClient::list_objects call
    held,           \* number of objects the listed bucket holds
    listed_objects, \* the call's result: Ok with the Vec's length, or Err
    \* ---- the concurrency bound a caller gives the transfer engine
    caller,         \* who builds the StorageTransfer
    cli_parallel,   \* --parallel of storage sync, as given on the command line
    config_file,    \* the configuration file Config::load finds
    engine,         \* StorageTransfer.parallel of the engine built
    \* ---- the storage subtree of a backup: written by download_all, read by
    \* restore_storage
    remote,             \* the backed-up project's buckets and objects
    storage_dir,        \* <backup>/storage: bucket directories and files
    spc,                \* position: the backup's storage stage, then restore_storage
    entries,            \* the bucket directories restore_storage has yet to visit
    bucket_dir,         \* the bucket directory restore_storage is in
    files,              \* the entries of that directory it has yet to visit
    restored_buckets,   \* the restore target: its set of buckets
    restored,           \* the restore target: the objects uploaded to it
    restore_stats,      \* RestoreStats
    \* ---- one function artifact through backup and restore
    captured,       \* the FunctionBackup that backup_all returned
    func_dir,       \* <backup>/functions/<slug>: relative path -> content
    deployed,       \* the FunctionBackup handed to deploy_function
    gpc,            \* position: backup, restore, deploy
    gcause          \* the call whose error ended it

tvars == <<sql, result, again, tpc>>
xvars == <<mode, bucket_arg, parallel, srcBuckets, targetBuckets, stored, pc, cause, buckets,
           bi, objects, task, nextObj, results, pb, bucket_stats, stats, starts,
           failures>>
xrest == <<mode, bucket_arg, parallel, srcBuckets, stored, pc, cause, buckets,
           bi, objects, task, nextObj, results, pb, bucket_stats, stats, starts,
           failures>>
bvars == <<cb, firstAfter>>
rvars == <<cmd, args, rpc, events, load, outcome, dump, input, backup_dir>>
fvars == <<registry, artifacts, fi, fpc, fcause, request, fstats, frun, attempted, ffails>>
lvars == <<held, listed_objects>>
cvars == <<caller, cli_parallel, config_file, engine>>
svars == <<remote, storage_dir, spc, entries, bucket_dir, files, restored_buckets, restored,
           restore_stats>>
gvars == <<captured, func_dir, deployed, gpc, gcause>>
nvars == <<fvars, lvars, cvars, svars, gvars>>
vars == <<tvars, xvars, bvars, rvars, nvars>>

(***************************************************************************)
(* SqlTransformer.  A text is a sequence of tokens: the line feed, the     *)
(* space, and opaque runs of characters free of line feeds and of leading  *)
(* or trailing whitespace (a whole statement, the comment marker "--").    *)
(***************************************************************************)
NL == "\n"
SP == " "
DASHES == "--"
DROP_AUTH == "DROP SCHEMA IF EXISTS \"auth\";"
CREATE_AUTH == "CREATE SCHEMA \"auth\";"
DROP_STORAGE == "DROP SCHEMA IF EXISTS \"storage\";"
CREATE_STORAGE == "CREATE SCHEMA \"storage\";"
ADMIN_PREFIX == "ALTER DEFAULT PRIVILEGES FOR ROLE \"supabase_admin\""
DROP_PUBLIC == "DROP SCHEMA IF EXISTS \"public\";"
SELECT_1 == "SELECT 1;"

\* The tokens input texts are drawn from.
Alphabet ==
    {NL, SP, DASHES, DROP_AUTH, CREATE_AUTH, DROP_STORAGE, CREATE_STORAGE,
     ADMIN_PREFIX, DROP_PUBLIC, SELECT_1}

\* Bounds of the input texts: any text of at most MaxBody tokens, and at most
\* one token followed by at most MaxTrail line feeds.
MaxBody == 4
MaxTrail == 6

RECURSIVE SplitNL(_)
\* str::split('\n'): the pieces between line feeds, at least one piece.
SplitNL(s) ==
    IF \A i \in 1..Len(s) : s[i] # NL
    THEN <<s>>
    ELSE LET i == CHOOSE k \in 1..Len(s) :
                     s[k] = NL /\ \A j \in 1..(k - 1) : s[j] # NL
         IN  <<SubSeq(s, 1, i - 1)>> \o SplitNL(SubSeq(s, i + 1, Len(s)))

\* str::lines(): split at line feeds; a final empty piece is not a line.
lines(s) ==
    LET p == SplitNL(s)
    IN  IF p[Len(p)] = <<>> THEN SubSeq(p, 1, Len(p) - 1) ELSE p

RECURSIVE join(_)
\* Vec<String>::join("\n")
join(ls) ==
    IF Len(ls) = 0 THEN <<>>
    ELSE IF Len(ls) = 1 THEN ls[1]
    ELSE ls[1] \o <<NL>> \o join(Tail(ls))

RECURSIVE trim_start(_)
trim_start(l) ==
    IF Len(l) > 0 /\ l[1] = SP THEN trim_start(Tail(l)) ELSE l

RECURSIVE trim_end(_)
trim_end(l) ==
    IF Len(l) > 0 /\ l[Len(l)] = SP THEN trim_end(SubSeq(l, 1, Len(l) - 1)) ELSE l

\* str::trim(): leading and trailing whitespace removed.
trim(l) == trim_end(trim_start(l))

\* str::starts_with
starts_with(l, p) == Len(l) >= Len(p) /\ SubSeq(l, 1, Len(p)) = p

\* format!("-- {}", line)
commented(l) == <<DASHES, SP>> \o l

\* The test of a line against one exact-statement rule without trimming.
line_matches_untrimmed(l, target) == l = <<target>>

\* The test comment_line makes: line.trim() == target.
line_matches(l, target) == trim(l) = <<target>>

comment_line(s, target) ==
    LET ls == lines(s)
    IN  join([i \in 1..Len(ls) |->
                IF line_matches(ls[i], target) THEN commented(ls[i]) ELSE ls[i]])

comment_lines_starting_with(s, pattern) ==
    LET ls == lines(s)
    IN  join([i \in 1..Len(ls) |->
                IF starts_with(trim(ls[i]), <<pattern>>)
                THEN commented(ls[i]) ELSE ls[i]])

\* One pass over the text for each rule, each pass splitting and re-joining.
transform(s) ==
    LET r1 == comment_line(s, DROP_AUTH)
        r2 == comment_line(r1, CREATE_AUTH)
        r3 == comment_line(r2, DROP_STORAGE)
        r4 == comment_line(r3, CREATE_STORAGE)
    IN  comment_lines_starting_with(r4, ADMIN_PREFIX)

SeqsUpTo(S, n) == UNION {[1..k -> S] : k \in 0..n}

Texts ==
    SeqsUpTo(Alphabet, MaxBody) \cup
    {b \o [i \in 1..t |-> NL] : b \in SeqsUpTo(Alphabet, 1), t \in 0..MaxTrail}

NoText == <<"(none)">>

TInit ==
    /\ sql \in Texts
    /\ result = NoText
    /\ again = NoText
    /\ tpc = "input"

TIdle ==
    /\ sql = <<>>
    /\ result = NoText
    /\ again = NoText
    /\ tpc = "off"

\* SqlTransformer::transform(&dump)
Transform ==
    /\ tpc = "input"
    /\ result' = transform(sql)
    /\ tpc' = "once"
    /\ UNCHANGED <<sql, again>>
    /\ UNCHANGED <<xvars, bvars, rvars, nvars>>

\* transform applied to its own output
TransformAgain ==
    /\ tpc = "once"
    /\ again' = transform(result)
    /\ tpc' = "twice"
    /\ UNCHANGED <<sql, result>>
    /\ UNCHANGED <<xvars, bvars, rvars, nvars>>

TNext == Transform \/ TransformAgain

(***************************************************************************)
(* The object stores and StorageClient (src/storage/client.rs).            *)
(***************************************************************************)
\* The buckets a source store may hold, in the order the backend lists them.
BucketNames == <<"avatars", "docs">>

\* Bounds: objects per bucket, and the largest concurrency value.
MaxObjects == 3
MaxParallel == 3

\* The concurrency values: every small one, and ten times each object count.
Parallels == (0..MaxParallel) \cup {10 * k : k \in 1..MaxObjects}

\* The source bucket of the given name is public or private.
SrcPublic(name) == name = "avatars"

\* The bytes download returns for object i: its length.
payload(i) == 10 * i

\* `"limit": 1000` of the request list_objects sends.
PAGE_LIMIT == 1000

\* The answer of POST /object/list/{bucket} for a bucket holding n objects:
\* at most `limit` objects, from the one after `offset` on.
BackendList(n, limit, offset) ==
    LET last == IF n < offset + limit THEN n ELSE offset + limit
    IN  [i \in 1..(IF last > offset THEN last - offset ELSE 0) |-> offset + i]

\* StorageClient::list_objects, on success: the objects of the one request
\* it sends, with limit 1000 and offset 0.
list_objects_result(n) == BackendList(n, PAGE_LIMIT, 0)

HasBucket(tb, name) == \E b \in tb : b.name = name

\* The answers the backend may give to POST /bucket: it keeps bucket names
\* unique, so a second bucket of a name is refused with "already exists";
\* any request may also fail for another reason.
BackendCreate(tb, name) ==
    IF HasBucket(tb, name) THEN {"already exists", "error"} ELSE {"success", "error"}

\* The target's buckets after the backend gave that answer.
BackendBuckets(tb, name, public, resp) ==
    IF resp = "success" THEN tb \cup {[name |-> name, public |-> public]} ELSE tb

\* create_bucket propagating every non-success response.
create_bucket_strict(resp) == IF resp = "success" THEN "Ok" ELSE "Err"

\* StorageClient::create_bucket: Ok on success and on a non-success response
\* whose body contains "already exists", Err otherwise.
create_bucket(resp) ==
    IF resp # "success"
    THEN IF resp # "already exists" THEN "Err" ELSE "Ok"
    ELSE "Ok"

(***************************************************************************)
(* StorageTransfer (src/storage/transfer.rs).                              *)
(***************************************************************************)
NoBucket == [some |-> FALSE, name |-> ""]

SomeBucket(name) == [some |-> TRUE, name |-> name]

NoStats == [buckets |-> 0, objects |-> 0, bytes |-> 0, errors |-> 0]

NoStarts == [b \in 1..Len(BucketNames) |-> [i \in 1..MaxObjects |-> 0]]

InFlight == {i \in 1..Len(objects) : task[i] \in {"Fetching", "Storing"}}

\* The first step of the loop body: sync_bucket or download_bucket.
bucket_entry == IF mode = "sync" THEN "find_bucket" ELSE "create_dir"

\* One iteration of `for result in results` that forgets to count errors.
count_result_no_errors(st, r) ==
    IF r.ok THEN [st EXCEPT !.objects = @ + 1, !.bytes = @ + r.size] ELSE st

\* One iteration of `for result in results`.
count_result(st, r) ==
    IF r.ok
    THEN [st EXCEPT !.objects = @ + 1, !.bytes = @ + r.size]
    ELSE [st EXCEPT !.errors = @ + 1]

RECURSIVE count_results(_, _)
count_results(st, rs) ==
    IF rs = <<>> THEN st ELSE count_results(count_result(st, Head(rs)), Tail(rs))

XInit ==
    /\ mode \in {"sync", "download"}
    /\ bucket_arg \in {NoBucket} \cup {SomeBucket(BucketNames[k]) : k \in 1..Len(BucketNames)}
    /\ parallel \in Parallels
    /\ \E nb \in 0..Len(BucketNames) : \E n \in [1..nb -> 0..MaxObjects] :
           srcBuckets = [j \in 1..nb |->
                            [name |-> BucketNames[j],
                             public |-> SrcPublic(BucketNames[j]),
                             nobj |-> n[j]]]
    /\ targetBuckets \in
           IF mode = "sync"
           THEN {{}, {[name |-> BucketNames[1], public |-> FALSE]}}
           ELSE {{}}
    /\ stored = {}
    /\ pc = IF bucket_arg.some THEN "find_bucket" ELSE "list_buckets"
    /\ cause = "none"
    /\ buckets = <<>>
    /\ bi = 0
    /\ objects = <<>>
    /\ task = <<>>
    /\ nextObj = 0
    /\ results = <<>>
    /\ pb = 0
    /\ bucket_stats = NoStats
    /\ stats = NoStats
    /\ starts = NoStarts
    /\ failures = 0

XIdle ==
    /\ mode = "off"
    /\ bucket_arg = NoBucket
    /\ parallel = 0
    /\ srcBuckets = <<>>
    /\ targetBuckets = {}
    /\ stored = {}
    /\ pc = "off"
    /\ cause = "none"
    /\ buckets = <<>>
    /\ bi = 0
    /\ objects = <<>>
    /\ task = <<>>
    /\ nextObj = 0
    /\ results = <<>>
    /\ pb = 0
    /\ bucket_stats = NoStats
    /\ stats = NoStats
    /\ starts = NoStarts
    /\ failures = 0

\* sync_all / download_all: `self.source.list_buckets().await?`
list_buckets ==
    /\ pc = "list_buckets"
    /\ \E ok \in BOOLEAN :
           IF ok
           THEN /\ buckets' = srcBuckets
                /\ bi' = 1
                /\ pc' = IF srcBuckets = <<>> THEN "done" ELSE bucket_entry
                /\ cause' = cause
           ELSE /\ pc' = "error"
                /\ cause' = "list_buckets"
                /\ UNCHANGED <<buckets, bi>>
    /\ UNCHANGED <<mode, bucket_arg, parallel, srcBuckets, targetBuckets, stored, objects, task,
                   nextObj, results, pb, bucket_stats, stats, starts, failures>>
    /\ UNCHANGED <<tvars, bvars, rvars, nvars>>

\* The index of the bucket of that name in a listing, 0 if there is none.
find_bucket(listing, name) ==
    IF \E j \in 1..Len(listing) : listing[j].name = name
    THEN CHOOSE j \in 1..Len(listing) : listing[j].name = name
    ELSE 0

\* The name sync_bucket is called with: the --bucket argument, or the name
\* of the bucket sync_all's loop is at.
bucket_name == IF bucket_arg.some THEN bucket_arg.name ELSE buckets[bi].name

\* sync_bucket: list the source's buckets (again, under sync_all) and find
\* the bucket by name; BucketNotFound if the listing has none of that name.
sync_bucket_find ==
    /\ pc = "find_bucket"
    /\ mode = "sync"
    /\ \E ok \in BOOLEAN :
           IF ok
           THEN IF find_bucket(srcBuckets, bucket_name) # 0
                THEN /\ buckets' = srcBuckets
                     /\ bi' = find_bucket(srcBuckets, bucket_name)
                     /\ pc' = "create_bucket"
                     /\ cause' = cause
                ELSE /\ pc' = "error"
                     /\ cause' = "bucket_not_found"
                     /\ UNCHANGED <<buckets, bi>>
           ELSE /\ pc' = "error"
                /\ cause' = "list_buckets"
                /\ UNCHANGED <<buckets, bi>>
    /\ UNCHANGED <<mode, bucket_arg, parallel, srcBuckets, targetBuckets, stored,
                   objects, task, nextObj, results, pb, bucket_stats, stats, starts,
                   failures>>
    /\ UNCHANGED <<tvars, bvars, rvars, nvars>>

\* download_storage with --bucket: list the buckets, find the bucket by
\* name, then download_bucket.
download_storage_find ==
    /\ pc = "find_bucket"
    /\ mode = "download"
    /\ \E ok \in BOOLEAN :
           IF ok
           THEN IF find_bucket(srcBuckets, bucket_name) # 0
                THEN /\ buckets' = srcBuckets
                     /\ bi' = find_bucket(srcBuckets, bucket_name)
                     /\ pc' = "create_dir"
                     /\ cause' = cause
                ELSE /\ pc' = "error"
                     /\ cause' = "bucket_not_found"
                     /\ UNCHANGED <<buckets, bi>>
           ELSE /\ pc' = "error"
                /\ cause' = "list_buckets"
                /\ UNCHANGED <<buckets, bi>>
    /\ UNCHANGED <<mode, bucket_arg, parallel, srcBuckets, targetBuckets, stored,
                   objects, task, nextObj, results, pb, bucket_stats, stats, starts,
                   failures>>
    /\ UNCHANGED <<tvars, bvars, rvars, nvars>>

\* A creation that always asks for a private bucket.
sync_bucket_create_private ==
    /\ pc = "create_bucket"
    /\ \E resp \in BackendCreate(targetBuckets, buckets[bi].name) :
           /\ targetBuckets' =
                  BackendBuckets(targetBuckets, buckets[bi].name, FALSE, resp)
           /\ IF create_bucket(resp) = "Ok"
              THEN pc' = "list_objects" /\ cause' = cause
              ELSE pc' = "error" /\ cause' = "create_bucket"
    /\ UNCHANGED <<mode, bucket_arg, parallel, srcBuckets, stored, buckets, bi, objects, task,
                   nextObj, results, pb, bucket_stats, stats, starts, failures>>
    /\ UNCHANGED <<tvars, bvars, rvars, nvars>>

\* sync_bucket: `target.create_bucket(&bucket.name, bucket.public).await?`
sync_bucket_create ==
    /\ pc = "create_bucket"
    /\ \E resp \in BackendCreate(targetBuckets, buckets[bi].name) :
           /\ targetBuckets' =
                  BackendBuckets(targetBuckets, buckets[bi].name, buckets[bi].public, resp)
           /\ IF create_bucket(resp) = "Ok"
              THEN pc' = "list_objects" /\ cause' = cause
              ELSE pc' = "error" /\ cause' = "create_bucket"
    /\ UNCHANGED <<mode, bucket_arg, parallel, srcBuckets, stored, buckets, bi, objects, task,
                   nextObj, results, pb, bucket_stats, stats, starts, failures>>
    /\ UNCHANGED <<tvars, bvars, rvars, nvars>>

\* download_bucket: `fs::create_dir_all(&bucket_dir).await?`
download_bucket_mkdir ==
    /\ pc = "create_dir"
    /\ \E ok \in BOOLEAN :
           IF ok
           THEN pc' = "list_objects" /\ cause' = cause
           ELSE pc' = "error" /\ cause' = "create_dir"
    /\ UNCHANGED <<mode, bucket_arg, parallel, srcBuckets, targetBuckets, stored, buckets, bi,
                   objects, task, nextObj, results, pb, bucket_stats, stats, starts,
                   failures>>
    /\ UNCHANGED <<tvars, bvars, rvars, nvars>>

\* A listing whose failure is taken for an empty bucket.
list_objects_lenient ==
    /\ pc = "list_objects"
    /\ \E ok \in BOOLEAN :
           /\ objects' = IF ok THEN list_objects_result(buckets[bi].nobj) ELSE <<>>
           /\ task' = [i \in 1..(IF ok THEN Len(list_objects_result(buckets[bi].nobj))
                                   ELSE 0) |-> "Pending"]
           /\ nextObj' = 0
           /\ results' = <<>>
           /\ pb' = 0
           /\ pc' = "transfer"
           /\ cause' = IF ok THEN cause ELSE "list_objects"
    /\ UNCHANGED <<mode, bucket_arg, parallel, srcBuckets, targetBuckets, stored, buckets, bi,
                   bucket_stats, stats, starts, failures>>
    /\ UNCHANGED <<tvars, bvars, rvars, nvars>>

\* `self.source.list_objects(bucket_name, None).await?`, then the progress
\* bar and the stream over the objects are set up.
list_objects ==
    /\ pc = "list_objects"
    /\ \E ok \in BOOLEAN :
           IF ok
           THEN /\ objects' = list_objects_result(buckets[bi].nobj)
                /\ task' = [i \in 1..Len(list_objects_result(buckets[bi].nobj)) |-> "Pending"]
                /\ nextObj' = 0
                /\ results' = <<>>
                /\ pb' = 0
                /\ pc' = "transfer"
                /\ cause' = cause
           ELSE /\ pc' = "error"
                /\ cause' = "list_objects"
                /\ UNCHANGED <<objects, task, nextObj, results, pb>>
    /\ UNCHANGED <<mode, bucket_arg, parallel, srcBuckets, targetBuckets, stored, buckets, bi,
                   bucket_stats, stats, starts, failures>>
    /\ UNCHANGED <<tvars, bvars, rvars, nvars>>

\* A start that does not advance the stream: the same object is taken again.
StartMoveAgain ==
    /\ pc = "transfer"
    /\ nextObj < Len(objects)
    /\ Cardinality(InFlight) < parallel
    /\ starts[bi][nextObj + 1] < 2
    /\ task' = [task EXCEPT ![nextObj + 1] = "Fetching"]
    /\ nextObj' = IF starts[bi][nextObj + 1] = 0 THEN nextObj ELSE nextObj + 1
    /\ starts' = [starts EXCEPT ![bi][nextObj + 1] = @ + 1]
    /\ UNCHANGED <<mode, bucket_arg, parallel, srcBuckets, targetBuckets, stored, pc, cause,
                   buckets, bi, objects, results, pb, bucket_stats, stats, failures>>
    /\ UNCHANGED <<tvars, bvars, rvars, nvars>>

\* A stream that starts the next object's move whatever is in progress.
StartMoveUnbounded ==
    /\ pc = "transfer"
    /\ nextObj < Len(objects)
    /\ task' = [task EXCEPT ![nextObj + 1] = "Fetching"]
    /\ nextObj' = nextObj + 1
    /\ starts' = [starts EXCEPT ![bi][nextObj + 1] = @ + 1]
    /\ UNCHANGED <<mode, bucket_arg, parallel, srcBuckets, targetBuckets, stored, pc, cause,
                   buckets, bi, objects, results, pb, bucket_stats, stats, failures>>
    /\ UNCHANGED <<tvars, bvars, rvars, nvars>>

\* buffer_unordered(self.parallel): while fewer than `parallel` futures are in
\* progress, the next object's future is pulled from the stream and started
\* (its download request is sent).
StartMove ==
    /\ pc = "transfer"
    /\ nextObj < Len(objects)
    /\ Cardinality(InFlight) < parallel
    /\ task' = [task EXCEPT ![nextObj + 1] = "Fetching"]
    /\ nextObj' = nextObj + 1
    /\ starts' = [starts EXCEPT ![bi][nextObj + 1] = @ + 1]
    /\ UNCHANGED <<mode, bucket_arg, parallel, srcBuckets, targetBuckets, stored, pc, cause,
                   buckets, bi, objects, results, pb, bucket_stats, stats, failures>>
    /\ UNCHANGED <<tvars, bvars, rvars, nvars>>

\* A fetch whose error is propagated out of the transfer instead of being
\* collected as the task's result.
FetchDoneAbort(i, ok) ==
    /\ pc = "transfer"
    /\ task[i] = "Fetching"
    /\ IF ok
       THEN /\ task' = [task EXCEPT ![i] = "Storing"]
            /\ UNCHANGED <<results, failures, pc, cause>>
       ELSE /\ task' = [task EXCEPT ![i] = "Failed"]
            /\ results' = Append(results, [ok |-> FALSE, size |-> 0])
            /\ failures' = failures + 1
            /\ pc' = "error"
            /\ cause' = "download"
    /\ UNCHANGED <<mode, bucket_arg, parallel, srcBuckets, targetBuckets, stored, buckets, bi,
                   objects, nextObj, pb, bucket_stats, stats, starts>>
    /\ UNCHANGED <<tvars, bvars, rvars, nvars>>

\* `source.download(&bucket, &name).await?` completes: on success the store
\* of the fetched bytes begins; on failure the task ends with Err.
FetchDone(i, ok) ==
    /\ pc = "transfer"
    /\ task[i] = "Fetching"
    /\ IF ok
       THEN /\ task' = [task EXCEPT ![i] = "Storing"]
            /\ UNCHANGED <<results, failures>>
       ELSE /\ task' = [task EXCEPT ![i] = "Failed"]
            /\ results' = Append(results, [ok |-> FALSE, size |-> 0])
            /\ failures' = failures + 1
    /\ UNCHANGED <<mode, bucket_arg, parallel, srcBuckets, targetBuckets, stored, pc, cause,
                   buckets, bi, objects, nextObj, pb, bucket_stats, stats, starts>>
    /\ UNCHANGED <<tvars, bvars, rvars, nvars>>

\* The size the listing reports for an object: its metadata may be absent.
listed_size(i) == IF i = 1 THEN payload(i) ELSE 0

\* A store that yields the size reported by the listing instead of the
\* length of the fetched bytes.
StoreDoneListedSize(i, ok) ==
    /\ pc = "transfer"
    /\ task[i] = "Storing"
    /\ IF ok
       THEN /\ task' = [task EXCEPT ![i] = "Succeeded"]
            /\ stored' = stored \cup
                   {[bucket |-> buckets[bi].name, name |-> objects[i],
                     size |-> payload(objects[i])]}
            /\ pb' = pb + 1
            /\ results' = Append(results, [ok |-> TRUE, size |-> listed_size(objects[i])])
            /\ UNCHANGED failures
       ELSE /\ task' = [task EXCEPT ![i] = "Failed"]
            /\ results' = Append(results, [ok |-> FALSE, size |-> 0])
            /\ failures' = failures + 1
            /\ UNCHANGED <<stored, pb>>
    /\ UNCHANGED <<mode, bucket_arg, parallel, srcBuckets, targetBuckets, pc, cause, buckets, bi,
                   objects, nextObj, bucket_stats, stats, starts>>
    /\ UNCHANGED <<tvars, bvars, rvars, nvars>>

\* `target.upload(..).await?` (sync) or create_dir_all + fs::write (download)
\* completes: on success pb.inc(1) and the task ends with Ok(size); on
\* failure the task ends with Err.
StoreDone(i, ok) ==
    /\ pc = "transfer"
    /\ task[i] = "Storing"
    /\ IF ok
       THEN /\ task' = [task EXCEPT ![i] = "Succeeded"]
            /\ stored' = stored \cup
                   {[bucket |-> buckets[bi].name, name |-> objects[i],
                     size |-> payload(objects[i])]}
            /\ pb' = pb + 1
            /\ results' = Append(results, [ok |-> TRUE, size |-> payload(objects[i])])
            /\ UNCHANGED failures
       ELSE /\ task' = [task EXCEPT ![i] = "Failed"]
            /\ results' = Append(results, [ok |-> FALSE, size |-> 0])
            /\ failures' = failures + 1
            /\ UNCHANGED <<stored, pb>>
    /\ UNCHANGED <<mode, bucket_arg, parallel, srcBuckets, targetBuckets, pc, cause, buckets, bi,
                   objects, nextObj, bucket_stats, stats, starts>>
    /\ UNCHANGED <<tvars, bvars, rvars, nvars>>

\* `.collect().await` completes once the stream is exhausted and no future is
\* in progress (BufferUnordered only polls the stream, and so only learns
\* that it is exhausted, while fewer than `parallel` futures are in progress);
\* then `pb.finish_with_message("Done")` moves the bar to its length, the
\* results are counted and the bucket's stats returned.
transfer_objects_return ==
    /\ pc = "transfer"
    /\ nextObj = Len(objects)
    /\ InFlight = {}
    /\ parallel > 0
    /\ pb' = Len(objects)
    /\ bucket_stats' = count_results(NoStats, results)
    /\ pc' = "accumulate"
    /\ UNCHANGED <<mode, bucket_arg, parallel, srcBuckets, targetBuckets, stored, cause, buckets,
                   bi, objects, task, nextObj, results, stats, starts, failures>>
    /\ UNCHANGED <<tvars, bvars, rvars, nvars>>

\* The SyncStats of the run after one more bucket's stats came back.
add_bucket_stats(st, bs) ==
    [st EXCEPT !.buckets = @ + 1,
               !.objects = @ + bs.objects,
               !.bytes = @ + bs.bytes]

\* sync_all / download_all: the loop body after the bucket's stats came
\* back, and the loop's next iteration or the return of Ok(stats).
accumulate ==
    /\ pc = "accumulate"
    /\ ~bucket_arg.some
    /\ stats' = add_bucket_stats(stats, bucket_stats)
    /\ bi' = bi + 1
    /\ pc' = IF bi = Len(buckets) THEN "done" ELSE bucket_entry
    /\ UNCHANGED <<mode, bucket_arg, parallel, srcBuckets, targetBuckets, stored, cause, buckets,
                   objects, task, nextObj, results, pb, bucket_stats, starts, failures>>
    /\ UNCHANGED <<tvars, bvars, rvars, nvars>>

\* sync_storage / download_storage with --bucket: the stats sync_bucket or
\* download_bucket returned are the stats of the run.
bucket_return ==
    /\ pc = "accumulate"
    /\ bucket_arg.some
    /\ stats' = bucket_stats
    /\ pc' = "done"
    /\ UNCHANGED <<mode, bucket_arg, parallel, srcBuckets, targetBuckets, stored, cause,
                   buckets, bi, objects, task, nextObj, results, pb, bucket_stats,
                   starts, failures>>
    /\ UNCHANGED <<tvars, bvars, rvars, nvars>>

XNext ==
    \/ list_buckets
    \/ sync_bucket_find
    \/ download_storage_find
    \/ sync_bucket_create
    \/ download_bucket_mkdir
    \/ list_objects
    \/ StartMove
    \/ \E i \in 1..Len(objects) : \E ok \in BOOLEAN : FetchDone(i, ok)
    \/ \E i \in 1..Len(objects) : \E ok \in BOOLEAN : StoreDone(i, ok)
    \/ transfer_objects_return
    \/ accumulate
    \/ bucket_return

(***************************************************************************)
(* Repeated calls of StorageClient::create_bucket against one target.      *)
(***************************************************************************)
\* Bound: the number of create_bucket calls made.
MaxCalls == 3

NoCall ==
    [n |-> 0, name |-> "", public |-> FALSE, resp |-> "", result |-> "", before |-> {}]

Named(tb, name) == {b \in tb : b.name = name}

BInit ==
    /\ cb = NoCall
    /\ firstAfter = [k \in 1..Len(BucketNames) |-> [seen |-> FALSE, buckets |-> {}]]

\* A caller (sync_bucket, restore_storage, upload_storage) creates the k-th
\* bucket name on the target.
create_bucket_call(k, public) ==
    /\ cb.n < MaxCalls
    /\ \E resp \in BackendCreate(targetBuckets, BucketNames[k]) :
           LET name == BucketNames[k]
               tb == BackendBuckets(targetBuckets, name, public, resp)
               r == create_bucket(resp)
           IN  /\ targetBuckets' = tb
               /\ cb' = [n |-> cb.n + 1, name |-> name, public |-> public,
                         resp |-> resp, result |-> r, before |-> targetBuckets]
               /\ firstAfter' =
                      IF r = "Ok" /\ ~firstAfter[k].seen
                      THEN [firstAfter EXCEPT ![k] = [seen |-> TRUE, buckets |-> Named(tb, name)]]
                      ELSE firstAfter
    /\ UNCHANGED <<xrest, tvars, rvars, nvars>>

BNext == \E k \in 1..Len(BucketNames) : \E public \in BOOLEAN : create_bucket_call(k, public)

(***************************************************************************)
(* PgRestore (src/db/restore.rs).  The diagnostic output of psql is a      *)
(* sequence of tokens.                                                     *)
(***************************************************************************)
StderrTokens == {"ERROR", "WARNING", "error"}

\* Bound: the number of tokens psql writes to stderr.
MaxStderr == 2

Stderrs == SeqsUpTo(StderrTokens, MaxStderr)

\* stderr.contains("ERROR")
contains_ERROR(stderr) == \E i \in 1..Len(stderr) : stderr[i] = "ERROR"

\* PgRestore::check_available: `psql --version` ran and succeeded.
check_available(found) == IF found THEN "Ok" ELSE "Err"

\* PgRestore::restore_from_file
restore_from_file(found, exit_ok, stderr) ==
    IF check_available(found) = "Err" THEN "Err"
    ELSE IF ~exit_ok
         THEN IF contains_ERROR(stderr) THEN "Err" ELSE "Ok"
         ELSE "Ok"

\* PgRestore::restore_from_string
restore_from_string(found, exit_ok, stderr) ==
    IF check_available(found) = "Err" THEN "Err"
    ELSE IF ~exit_ok
         THEN IF contains_ERROR(stderr) THEN "Err" ELSE "Ok"
         ELSE "Ok"

NoLoad ==
    [ran |-> FALSE, via |-> "", found |-> FALSE, exit_ok |-> FALSE,
     stderr |-> <<>>, result |-> ""]

(***************************************************************************)
(* PgDump (src/db/dump.rs).                                                *)
(***************************************************************************)
\* The mode flags dump_to_string adds to the pg_dump command line.
dump_flags(schema_only, data_only) ==
    (IF schema_only THEN {"--schema-only"} ELSE {}) \cup
    (IF data_only THEN {"--data-only"} ELSE {})

\* The exit statuses pg_dump may end with (TRUE: success): it refuses the
\* two mode flags together, and may fail for other reasons on any call.
PgDumpExits(flags) ==
    IF flags = {"--schema-only", "--data-only"} THEN {FALSE} ELSE BOOLEAN

\* PgDump::dump_to_string: check_available, then pg_dump's exit status.
dump_to_string(found, exit_ok) ==
    IF check_available(found) = "Err" THEN "Err"
    ELSE IF ~exit_ok THEN "Err" ELSE "Ok"

NoDump ==
    [ran |-> FALSE, invoked |-> FALSE, flags |-> {}, found |-> FALSE,
     exit_ok |-> FALSE, result |-> ""]

\* The record of one dump_to_string call with those modes.
DumpCall(schema_only, data_only, found, exit_ok) ==
    [ran |-> TRUE, invoked |-> found,
     flags |-> IF found THEN dump_flags(schema_only, data_only) ELSE {},
     found |-> found, exit_ok |-> exit_ok,
     result |-> dump_to_string(found, exit_ok)]

(***************************************************************************)
(* The runs: commands::migrate::run, commands::backup::run and             *)
(* commands::restore::run.  A stage's call is one step for its start and   *)
(* one for its awaited result.                                             *)
(***************************************************************************)
\* What the user may type at the confirmation prompt.
Answers == {"y", "Y", "n", "", "yes"}

\* No prompt was shown.
NotAsked == "(not asked)"

\* input.trim().eq_ignore_ascii_case("y")
confirmed(answer) == answer \in {"y", "Y"}

Args(dry, yes, st, fn, sk, tk, md, mst, mfn, so, do) ==
    [dry_run |-> dry, yes |-> yes, include_storage |-> st, include_functions |-> fn,
     src_key |-> sk, tgt_key |-> tk, has_metadata |-> md, md_storage |-> mst,
     md_functions |-> mfn, schema_only |-> so, data_only |-> do]

B == BOOLEAN

RInit ==
    /\ cmd \in {"migrate", "backup", "restore"}
    /\ args \in
         CASE cmd = "migrate" ->
                {Args(d, y, s, f, sk, tk, FALSE, FALSE, FALSE, so, do) :
                    d \in B, y \in B, s \in B, f \in B, sk \in B, tk \in B,
                    so \in B, do \in B}
           [] cmd = "backup" ->
                {Args(FALSE, TRUE, s, f, sk, FALSE, FALSE, FALSE, FALSE, so, FALSE) :
                    s \in B, f \in B, sk \in B, so \in B}
           [] cmd = "restore" ->
                {Args(FALSE, y, s, f, FALSE, tk, md, ms, mf, FALSE, FALSE) :
                    y \in B, s \in B, f \in B, tk \in B, md \in B, ms \in B, mf \in B}
    /\ rpc = CASE cmd = "migrate" -> "plan" [] cmd = "backup" -> "dump" [] cmd = "restore" -> "check"
    /\ events = <<>>
    /\ load = NoLoad
    /\ outcome = "running"
    /\ dump = NoDump
    /\ input = NotAsked
    /\ backup_dir = {}

RIdle ==
    /\ cmd = "off"
    /\ args = Args(FALSE, FALSE, FALSE, FALSE, FALSE, FALSE, FALSE, FALSE, FALSE,
                   FALSE, FALSE)
    /\ rpc = "off"
    /\ events = <<>>
    /\ load = NoLoad
    /\ outcome = "running"
    /\ dump = NoDump
    /\ input = NotAsked
    /\ backup_dir = {}

\* `return Err(..)` / `?` out of run
Fail == rpc' = "done" /\ outcome' = "Err"

\* `return Ok(())` out of run
Return == rpc' = "done" /\ outcome' = "Ok"

Goto(p) == rpc' = p /\ outcome' = outcome

Started(stage) == Append(events, <<stage, "start">>)

Ended(stage) == Append(events, <<stage, "end">>)

\* ---- migrate
\* A plan step that does not look at --dry-run.
m_plan_ignores_dry_run ==
    /\ cmd = "migrate" /\ rpc = "plan"
    /\ IF ~args.yes
       THEN \E answer \in Answers :
                /\ input' = answer
                /\ IF confirmed(answer) THEN Goto("dump") ELSE Return
       ELSE Goto("dump") /\ input' = input
    /\ UNCHANGED <<cmd, args, backup_dir, events, load, dump, tvars, xvars, bvars, nvars>>

\* the dry-run return and the confirmation prompt
m_plan ==
    /\ cmd = "migrate" /\ rpc = "plan"
    /\ IF args.dry_run
       THEN Return /\ input' = input
       ELSE IF ~args.yes
            THEN \E answer \in Answers :
                     /\ input' = answer
                     /\ IF confirmed(answer) THEN Goto("dump") ELSE Return
            ELSE Goto("dump") /\ input' = input
    /\ UNCHANGED <<cmd, args, backup_dir, events, load, dump, tvars, xvars, bvars, nvars>>

\* PgDump::new(..).schema_only(args.schema_only).data_only(args.data_only)
\* .dump_to_string()?
m_dump ==
    /\ cmd = "migrate" /\ rpc = "dump"
    /\ events' = Started("db")
    /\ \E found \in BOOLEAN :
       \E exit_ok \in PgDumpExits(dump_flags(args.schema_only, args.data_only)) :
           /\ dump' = DumpCall(args.schema_only, args.data_only, found, exit_ok)
           /\ IF dump_to_string(found, exit_ok) = "Ok" THEN Goto("transform") ELSE Fail
    /\ UNCHANGED <<cmd, args, input, backup_dir, load, tvars, xvars, bvars, nvars>>

\* SqlTransformer::transform(&dump) and the write of the temp file
m_transform ==
    /\ cmd = "migrate" /\ rpc = "transform"
    /\ Goto("load")
    /\ UNCHANGED <<cmd, args, input, backup_dir, events, load, dump, tvars, xvars, bvars, nvars>>

\* restore.restore_from_file(temp_file.path())?
m_load ==
    /\ cmd = "migrate" /\ rpc = "load"
    /\ \E found \in BOOLEAN, exit_ok \in BOOLEAN, stderr \in Stderrs :
           LET r == restore_from_file(found, exit_ok, stderr)
           IN  /\ load' = [ran |-> TRUE, via |-> "file", found |-> found,
                           exit_ok |-> exit_ok, stderr |-> stderr, result |-> r]
               /\ IF r = "Ok"
                  THEN events' = Ended("db") /\ Goto("storage")
                  ELSE events' = events /\ Fail
    /\ UNCHANGED <<cmd, args, input, backup_dir, dump, tvars, xvars, bvars, nvars>>

\* `if args.include_storage`: the service keys, the two clients, the transfer
m_storage ==
    /\ cmd = "migrate" /\ rpc = "storage"
    /\ IF args.include_storage
       THEN IF ~args.src_key \/ ~args.tgt_key
            THEN events' = events /\ Fail
            ELSE events' = Started("storage") /\ Goto("storage_run")
       ELSE events' = events /\ Goto("finish")
    /\ UNCHANGED <<cmd, args, input, backup_dir, load, dump, tvars, xvars, bvars, nvars>>

\* transfer.sync_all().await?
m_storage_run ==
    /\ cmd = "migrate" /\ rpc = "storage_run"
    /\ \E ok \in BOOLEAN :
           IF ok THEN events' = Ended("storage") /\ Goto("finish")
           ELSE events' = events /\ Fail
    /\ UNCHANGED <<cmd, args, input, backup_dir, load, dump, tvars, xvars, bvars, nvars>>

m_finish ==
    /\ cmd = "migrate" /\ rpc = "finish"
    /\ Return
    /\ UNCHANGED <<cmd, args, input, backup_dir, events, load, dump, tvars, xvars, bvars, nvars>>

\* ---- backup
\* the backup directory, then PgDump::new(..).schema_only(args.schema_only)
\* .dump_to_string()? (data_only stays false, as PgDump::new sets it)
b_dump ==
    /\ cmd = "backup" /\ rpc = "dump"
    /\ events' = Started("db")
    /\ \E found \in BOOLEAN :
       \E exit_ok \in PgDumpExits(dump_flags(args.schema_only, FALSE)) :
           /\ dump' = DumpCall(args.schema_only, FALSE, found, exit_ok)
           /\ IF dump_to_string(found, exit_ok) = "Ok" THEN Goto("write_dump") ELSE Fail
    /\ UNCHANGED <<cmd, args, input, backup_dir, load, tvars, xvars, bvars, nvars>>

\* the dump is written to database.sql or database.sql.gz
b_write_dump ==
    /\ cmd = "backup" /\ rpc = "write_dump"
    /\ events' = Ended("db")
    /\ backup_dir' = backup_dir \cup {"database.sql"}
    /\ Goto("functions")
    /\ UNCHANGED <<cmd, args, input, load, dump, tvars, xvars, bvars, nvars>>

\* `if include_functions`: the service key and the functions client
b_functions ==
    /\ cmd = "backup" /\ rpc = "functions"
    /\ IF args.include_functions
       THEN IF ~args.src_key
            THEN events' = events /\ Fail
            ELSE events' = Started("functions") /\ Goto("functions_run")
       ELSE events' = events /\ Goto("storage")
    /\ UNCHANGED <<cmd, args, input, backup_dir, load, dump, tvars, xvars, bvars, nvars>>

\* functions_client.backup_all().await? and the write of each function
b_functions_run ==
    /\ cmd = "backup" /\ rpc = "functions_run"
    /\ \E ok \in BOOLEAN :
           IF ok
           THEN /\ events' = Ended("functions")
                /\ backup_dir' = backup_dir \cup {"functions"}
                /\ Goto("storage")
           ELSE events' = events /\ backup_dir' = backup_dir /\ Fail
    /\ UNCHANGED <<cmd, args, input, load, dump, tvars, xvars, bvars, nvars>>

\* `if args.include_storage`: the service key, the client, the transfer
b_storage ==
    /\ cmd = "backup" /\ rpc = "storage"
    /\ IF args.include_storage
       THEN IF ~args.src_key
            THEN events' = events /\ backup_dir' = backup_dir /\ Fail
            ELSE /\ events' = Started("storage")
                 /\ backup_dir' = backup_dir \cup {"storage"}
                 /\ Goto("storage_run")
       ELSE events' = events /\ backup_dir' = backup_dir /\ Goto("metadata")
    /\ UNCHANGED <<cmd, args, input, load, dump, tvars, xvars, bvars, nvars>>

\* transfer.download_all(&storage_dir).await?
b_storage_run ==
    /\ cmd = "backup" /\ rpc = "storage_run"
    /\ \E ok \in BOOLEAN :
           IF ok THEN events' = Ended("storage") /\ Goto("metadata")
           ELSE events' = events /\ Fail
    /\ UNCHANGED <<cmd, args, input, backup_dir, load, dump, tvars, xvars, bvars, nvars>>

\* metadata.json is written: `fs::write(&metadata_file, ..)?`, then Ok(())
b_metadata ==
    /\ cmd = "backup" /\ rpc = "metadata"
    /\ \E ok \in BOOLEAN :
           IF ok
           THEN backup_dir' = backup_dir \cup {"metadata.json"} /\ Return
           ELSE backup_dir' = backup_dir /\ Fail
    /\ UNCHANGED <<cmd, args, input, events, load, dump, tvars, xvars, bvars, nvars>>

\* ---- restore
\* A restore that goes on without a metadata.json.
r_check_lenient ==
    /\ cmd = "restore" /\ rpc = "check"
    /\ Goto("confirm")
    /\ UNCHANGED <<cmd, args, input, backup_dir, events, load, dump, tvars, xvars, bvars, nvars>>

\* the backup directory and its metadata.json: InvalidBackup if it is missing
r_check ==
    /\ cmd = "restore" /\ rpc = "check"
    /\ IF args.has_metadata THEN Goto("confirm") ELSE Fail
    /\ UNCHANGED <<cmd, args, input, backup_dir, events, load, dump, tvars, xvars, bvars, nvars>>

\* the confirmation prompt
r_confirm ==
    /\ cmd = "restore" /\ rpc = "confirm"
    /\ IF ~args.yes
       THEN \E answer \in Answers :
                /\ input' = answer
                /\ IF confirmed(answer) THEN Goto("read_dump") ELSE Return
       ELSE Goto("read_dump") /\ input' = input
    /\ UNCHANGED <<cmd, args, backup_dir, events, load, dump, tvars, xvars, bvars, nvars>>

\* the dump file is looked up and read
r_read_dump ==
    /\ cmd = "restore" /\ rpc = "read_dump"
    /\ events' = Started("db")
    /\ \E exists \in BOOLEAN : IF exists THEN Goto("transform") ELSE Fail
    /\ UNCHANGED <<cmd, args, input, backup_dir, load, dump, tvars, xvars, bvars, nvars>>

\* SqlTransformer::transform(&sql)
r_transform ==
    /\ cmd = "restore" /\ rpc = "transform"
    /\ Goto("load")
    /\ UNCHANGED <<cmd, args, input, backup_dir, events, load, dump, tvars, xvars, bvars, nvars>>

\* restore.restore_from_string(&transformed)?
r_load ==
    /\ cmd = "restore" /\ rpc = "load"
    /\ \E found \in BOOLEAN, exit_ok \in BOOLEAN, stderr \in Stderrs :
           LET r == restore_from_string(found, exit_ok, stderr)
           IN  /\ load' = [ran |-> TRUE, via |-> "string", found |-> found,
                           exit_ok |-> exit_ok, stderr |-> stderr, result |-> r]
               /\ IF r = "Ok"
                  THEN events' = Ended("db") /\ Goto("storage")
                  ELSE events' = events /\ Fail
    /\ UNCHANGED <<cmd, args, input, backup_dir, dump, tvars, xvars, bvars, nvars>>

\* The storage stage started without its result being awaited.
r_storage_unawaited ==
    /\ cmd = "restore" /\ rpc = "storage"
    /\ IF args.include_storage /\ args.md_storage
       THEN IF ~args.tgt_key
            THEN events' = events /\ Fail
            ELSE \E exists \in BOOLEAN :
                     IF exists THEN events' = Started("storage") /\ Goto("functions")
                     ELSE events' = events /\ Goto("functions")
       ELSE events' = events /\ Goto("functions")
    /\ UNCHANGED <<cmd, args, input, backup_dir, load, dump, tvars, xvars, bvars, nvars>>

\* `if args.include_storage && metadata.include_storage`: the service key,
\* the client, and whether the backup holds a storage directory
r_storage ==
    /\ cmd = "restore" /\ rpc = "storage"
    /\ IF args.include_storage /\ args.md_storage
       THEN IF ~args.tgt_key
            THEN events' = events /\ Fail
            ELSE \E exists \in BOOLEAN :
                     IF exists THEN events' = Started("storage") /\ Goto("storage_run")
                     ELSE events' = events /\ Goto("functions")
       ELSE events' = events /\ Goto("functions")
    /\ UNCHANGED <<cmd, args, input, backup_dir, load, dump, tvars, xvars, bvars, nvars>>

\* restore_storage(&storage, &storage_dir).await?
r_storage_run ==
    /\ cmd = "restore" /\ rpc = "storage_run"
    /\ \E ok \in BOOLEAN :
           IF ok THEN events' = Ended("storage") /\ Goto("functions")
           ELSE events' = events /\ Fail
    /\ UNCHANGED <<cmd, args, input, backup_dir, load, dump, tvars, xvars, bvars, nvars>>

\* `if args.include_functions && metadata.include_functions`: the service
\* key, the client, and whether the backup holds a functions directory
r_functions ==
    /\ cmd = "restore" /\ rpc = "functions"
    /\ IF args.include_functions /\ args.md_functions
       THEN IF ~args.tgt_key
            THEN events' = events /\ Fail
            ELSE \E exists \in BOOLEAN :
                     IF exists THEN events' = Started("functions") /\ Goto("functions_run")
                     ELSE events' = events /\ Goto("finish")
       ELSE events' = events /\ Goto("finish")
    /\ UNCHANGED <<cmd, args, input, backup_dir, load, dump, tvars, xvars, bvars, nvars>>

\* restore_functions(&functions_client, &functions_dir).await?
r_functions_run ==
    /\ cmd = "restore" /\ rpc = "functions_run"
    /\ \E ok \in BOOLEAN :
           IF ok THEN events' = Ended("functions") /\ Goto("finish")
           ELSE events' = events /\ Fail
    /\ UNCHANGED <<cmd, args, input, backup_dir, load, dump, tvars, xvars, bvars, nvars>>

r_finish ==
    /\ cmd = "restore" /\ rpc = "finish"
    /\ Return
    /\ UNCHANGED <<cmd, args, input, backup_dir, events, load, dump, tvars, xvars, bvars, nvars>>

RNext ==
    \/ m_plan \/ m_dump \/ m_transform \/ m_load \/ m_storage \/ m_storage_run
    \/ m_finish
    \/ b_dump \/ b_write_dump \/ b_functions \/ b_functions_run \/ b_storage
    \/ b_storage_run \/ b_metadata
    \/ r_check \/ r_confirm \/ r_read_dump \/ r_transform \/ r_load \/ r_storage
    \/ r_storage_run \/ r_functions \/ r_functions_run \/ r_finish

(***************************************************************************)
(* restore_functions (src/commands/restore.rs) and                         *)
(* FunctionsClient::deploy_function (src/functions/client.rs).             *)
(***************************************************************************)
\* The slugs of the functions a backup may hold, in read_dir order.
Slugs == <<"hello", "world">>

\* What a directory under functions/ holds: a function with its files, a
\* directory without metadata.json, or one with no file besides it.
DirKinds == {"function", "no_metadata", "no_files"}

\* Bound: the number of restores run against the same target.
MaxRestores == 2

\* The slugs list_functions returns for that registry.
ListedSlugs(reg) == {f.slug : f \in reg}

\* deploy_function choosing a create whatever the fetched list holds.
function_exists_never(listed, slug) == FALSE

\* deploy_function: `existing.iter().any(|f| f.slug == backup.slug)`
function_exists(listed, slug) == slug \in listed

\* The registry's answers to a request.  POST /functions creates a function
\* (the registry is not assumed to refuse a second function of a slug);
\* PATCH /functions/{slug} changes the functions of that slug, and is refused
\* when there is none; any request may also be refused for another reason.
RegistryAnswers(reg, kind, slug) ==
    IF kind = "update" /\ slug \notin ListedSlugs(reg) THEN {"error"} ELSE {"success", "error"}

\* The registry after it gave that answer.
RegistryAfter(reg, kind, slug, resp) ==
    IF resp # "success" THEN reg
    ELSE IF kind = "create"
         THEN reg \cup {[slug |-> slug, id |-> Cardinality(reg) + 1, rev |-> 1]}
         ELSE {IF f.slug = slug THEN [f EXCEPT !.rev = @ + 1] ELSE f : f \in reg}

\* The path of the request's URL below /functions.
request_path(exists, slug) == IF exists THEN slug ELSE ""

NoRequest ==
    [kind |-> "none", slug |-> "", path |-> "", listed |-> {}, resp |-> "",
     before |-> {}]

FInit ==
    /\ registry \in {{}, {[slug |-> Slugs[1], id |-> 1, rev |-> 1]}}
    /\ \E n \in 0..Len(Slugs) : \E k \in [1..n -> DirKinds] :
           artifacts = [j \in 1..n |-> [slug |-> Slugs[j], kind |-> k[j]]]
    /\ fi = 1
    /\ fpc = "entry"
    /\ fcause = "none"
    /\ request = NoRequest
    /\ fstats = 0
    /\ frun = 1
    /\ attempted = {}
    /\ ffails = 0

FIdle ==
    /\ registry = {}
    /\ artifacts = <<>>
    /\ fi = 1
    /\ fpc = "off"
    /\ fcause = "none"
    /\ request = NoRequest
    /\ fstats = 0
    /\ frun = 1
    /\ attempted = {}
    /\ ffails = 0

\* restore_functions: the next directory entry; a directory without
\* metadata.json or without files is passed over (`continue`), for any other
\* the FunctionBackup is built and deploy_function called.
restore_functions_entry ==
    /\ fpc = "entry"
    /\ fi <= Len(artifacts)
    /\ IF artifacts[fi].kind = "function"
       THEN /\ fpc' = "list"
            /\ attempted' = attempted \cup {<<frun, fi>>}
            /\ fi' = fi
       ELSE /\ fpc' = "entry"
            /\ attempted' = attempted
            /\ fi' = fi + 1
    /\ UNCHANGED <<registry, artifacts, fcause, request, fstats, frun, ffails>>
    /\ UNCHANGED <<tvars, xvars, bvars, rvars, lvars, cvars, svars, gvars>>

\* deploy_function: `self.list_functions().await?` and the test for the
\* slug; the error of the list is returned by deploy_function and, through
\* `?`, by restore_functions.
deploy_function_list ==
    /\ fpc = "list"
    /\ \E ok \in BOOLEAN :
           IF ok
           THEN LET listed == ListedSlugs(registry)
                    slug == artifacts[fi].slug
                IN  /\ request' =
                           [kind |-> IF function_exists(listed, slug)
                                     THEN "update" ELSE "create",
                            slug |-> slug,
                            path |-> request_path(function_exists(listed, slug), slug),
                            listed |-> listed, resp |-> "pending",
                            before |-> registry]
                    /\ fpc' = "request"
                    /\ fcause' = fcause
           ELSE /\ request' = request
                /\ fpc' = "error"
                /\ fcause' = "list_functions"
    /\ UNCHANGED <<registry, artifacts, fi, fstats, frun, attempted, ffails>>
    /\ UNCHANGED <<tvars, xvars, bvars, rvars, lvars, cvars, svars, gvars>>

\* deploy_function: PATCH /functions/{slug} if the slug was listed, POST
\* /functions otherwise; a non-success response is Err(Functions(..)), which
\* `client.deploy_function(&backup).await?` returns from restore_functions;
\* on success `stats.functions += 1` and the loop goes on.
deploy_function_send ==
    /\ fpc = "request"
    /\ \E resp \in RegistryAnswers(registry, request.kind, request.slug) :
           /\ registry' = RegistryAfter(registry, request.kind, request.slug, resp)
           /\ request' = [request EXCEPT !.resp = resp]
           /\ IF resp = "success"
              THEN /\ fstats' = fstats + 1
                   /\ fi' = fi + 1
                   /\ fpc' = "entry"
                   /\ UNCHANGED <<fcause, ffails>>
              ELSE /\ ffails' = ffails + 1
                   /\ fpc' = "error"
                   /\ fcause' = "deploy"
                   /\ UNCHANGED <<fstats, fi>>
    /\ UNCHANGED <<artifacts, frun, attempted>>
    /\ UNCHANGED <<tvars, xvars, bvars, rvars, lvars, cvars, svars, gvars>>

\* restore_functions: the entries are exhausted, `Ok(stats)`.
restore_functions_return ==
    /\ fpc = "entry"
    /\ fi > Len(artifacts)
    /\ fpc' = "done"
    /\ UNCHANGED <<registry, artifacts, fi, fcause, request, fstats, frun, attempted,
                   ffails>>
    /\ UNCHANGED <<tvars, xvars, bvars, rvars, lvars, cvars, svars, gvars>>

\* The same backup is restored against the same target once more.
restore_functions_again ==
    /\ fpc = "done"
    /\ frun < MaxRestores
    /\ frun' = frun + 1
    /\ fi' = 1
    /\ fstats' = 0
    /\ fpc' = "entry"
    /\ UNCHANGED <<registry, artifacts, fcause, request, attempted, ffails>>
    /\ UNCHANGED <<tvars, xvars, bvars, rvars, lvars, cvars, svars, gvars>>

FNext ==
    \/ restore_functions_entry
    \/ deploy_function_list
    \/ deploy_function_send
    \/ restore_functions_return
    \/ restore_functions_again

(***************************************************************************)
(* One call of StorageClient::list_objects (src/storage/client.rs) against *)
(* a bucket of any size.                                                   *)
(***************************************************************************)
\* Bound: the listed bucket holds at most MaxPages full pages of objects.
MaxPages == 2

NoListing == [done |-> FALSE, ok |-> FALSE, len |-> 0]

LInit ==
    /\ held \in 0..(MaxPages * PAGE_LIMIT)
    /\ listed_objects = NoListing

LIdle ==
    /\ held = 0
    /\ listed_objects = NoListing

\* `self.source.list_objects(bucket_name, None).await`: Err on a non-success
\* response, Ok with the objects of the response otherwise.
list_objects_call ==
    /\ ~listed_objects.done
    /\ \E ok \in BOOLEAN :
           listed_objects' = [done |-> TRUE, ok |-> ok,
                       len |-> IF ok THEN Len(list_objects_result(held)) ELSE 0]
    /\ UNCHANGED held
    /\ UNCHANGED <<tvars, xvars, bvars, rvars, fvars, cvars, svars, gvars>>

LNext == list_objects_call

(***************************************************************************)
(* The concurrency bound of the transfer engine: StorageTransfer::new and  *)
(* parallel (src/storage/transfer.rs), the callers in src/commands and     *)
(* Config::load (src/config.rs).                                           *)
(***************************************************************************)
\* fn default_parallel
default_parallel == 4

\* `parallel: 4` of StorageTransfer::new
NEW_PARALLEL == 4

\* `default_value = "4"` of --parallel
CLI_PARALLEL == 4

None == [some |-> FALSE, value |-> 0]

Some(v) == [some |-> TRUE, value |-> v]

\* The values a caller may configure: the concurrency values of the engine.
Options == {None} \cup {Some(v) : v \in Parallels}

\* The configuration files: none found, one without a [defaults] section, one
\* whose [defaults] section gives parallel_transfers or leaves it out.
ConfigFiles ==
    {[found |-> FALSE, defaults |-> FALSE, parallel_transfers |-> None],
     [found |-> TRUE, defaults |-> FALSE, parallel_transfers |-> None]} \cup
    {[found |-> TRUE, defaults |-> TRUE, parallel_transfers |-> o] : o \in Options}

Callers == {"new", "storage sync", "migrate", "backup", "storage download"}

\* `#[derive(Default)]` on DefaultsConfig: usize::default() for
\* parallel_transfers.
DefaultsConfig_default == [parallel_transfers |-> 0]

\* Deserialize for DefaultsConfig: `#[serde(default = "default_parallel")]`
\* applies to a section that leaves the field out.
DefaultsConfig_deserialize(o) ==
    [parallel_transfers |-> IF o.some THEN o.value ELSE default_parallel]

\* Config::load(None).defaults: Config::default() when no file is found;
\* `#[serde(default)]` on `defaults` gives DefaultsConfig::default() to a
\* file without the section.
Config_load(file) ==
    IF ~file.found THEN DefaultsConfig_default
    ELSE IF ~file.defaults THEN DefaultsConfig_default
    ELSE DefaultsConfig_deserialize(file.parallel_transfers)

\* StorageTransfer::parallel(count) applied to StorageTransfer::new(..)
parallel_of(count) == count

NotBuilt == [built |-> FALSE, parallel |-> 0, error |-> ""]

Built(count) == [built |-> TRUE, parallel |-> count, error |-> ""]

CInit ==
    /\ caller \in Callers
    /\ cli_parallel \in IF caller = "storage sync" THEN Options ELSE {None}
    /\ config_file \in IF caller = "new" THEN {[found |-> FALSE, defaults |-> FALSE,
                                               parallel_transfers |-> None]}
                       ELSE ConfigFiles
    /\ engine = NotBuilt

\* A command run without a configuration file: Config::default() has no
\* projects, and `config.get_project(..)?` ends the run before any engine is
\* built.
project_not_found ==
    /\ caller \in Callers \ {"new"}
    /\ ~config_file.found
    /\ engine = NotBuilt
    /\ engine' = [engine EXCEPT !.error = "ProjectNotFound"]
    /\ UNCHANGED <<caller, cli_parallel, config_file>>
    /\ UNCHANGED <<tvars, xvars, bvars, rvars, fvars, lvars, svars, gvars>>

CIdle ==
    /\ caller = "off"
    /\ cli_parallel = None
    /\ config_file = [found |-> FALSE, defaults |-> FALSE, parallel_transfers |-> None]
    /\ engine = NotBuilt

\* StorageTransfer::new(..) alone
build_new ==
    /\ caller = "new"
    /\ engine = NotBuilt
    /\ engine' = Built(NEW_PARALLEL)
    /\ UNCHANGED <<caller, cli_parallel, config_file>>
    /\ UNCHANGED <<tvars, xvars, bvars, rvars, fvars, lvars, svars, gvars>>

\* sync_storage: StorageTransfer::new(..).parallel(parallel), where parallel
\* is --parallel or its default value
build_sync ==
    /\ caller = "storage sync"
    /\ config_file.found
    /\ engine = NotBuilt
    /\ engine' = Built(parallel_of(IF cli_parallel.some THEN cli_parallel.value
                                   ELSE CLI_PARALLEL))
    /\ UNCHANGED <<caller, cli_parallel, config_file>>
    /\ UNCHANGED <<tvars, xvars, bvars, rvars, fvars, lvars, svars, gvars>>

\* migrate, backup and download_storage:
\* StorageTransfer::new(..).parallel(config.defaults.parallel_transfers)
build_from_config ==
    /\ caller \in {"migrate", "backup", "storage download"}
    /\ config_file.found
    /\ engine = NotBuilt
    /\ engine' = Built(parallel_of(Config_load(config_file).parallel_transfers))
    /\ UNCHANGED <<caller, cli_parallel, config_file>>
    /\ UNCHANGED <<tvars, xvars, bvars, rvars, fvars, lvars, svars, gvars>>

CNext == project_not_found \/ build_new \/ build_sync \/ build_from_config

(***************************************************************************)
(* The storage subtree of a backup: download_all / download_bucket          *)
(* (src/storage/transfer.rs) write it, restore_storage                      *)
(* (src/commands/restore.rs) reads it.  An object name is a path; its       *)
(* segments are the components of the file's path below the bucket          *)
(* directory.                                                               *)
(***************************************************************************)
ObjectNames == {"a.png", "img/b.png"}

\* The components of `bucket_dir.join(&name)` below bucket_dir.
Segments(name) == IF name = "img/b.png" THEN <<"img", "b.png">> ELSE <<name>>

NoRestoreStats == [buckets |-> 0, objects |-> 0]

NoStorageDir == [dirs |-> {}, files |-> {}]

NoRemote == [buckets |-> {}, objects |-> {}]

\* The names read_dir yields for a bucket directory: the first component of
\* every file below it.
read_dir(dir, b) == {f.path[1] : f \in {g \in dir.files : g.bucket = b}}

\* file_type().is_file() of an entry of a bucket directory.
is_file(dir, b, e) == [bucket |-> b, path |-> <<e>>] \in dir.files

SInit ==
    /\ \E bs \in SUBSET {BucketNames[k] : k \in 1..Len(BucketNames)} :
       \E os \in SUBSET (bs \X ObjectNames) :
           remote = [buckets |-> bs,
                     objects |-> {[bucket |-> o[1], name |-> o[2]] : o \in os}]
    /\ storage_dir = NoStorageDir
    /\ spc = "backup"
    /\ entries = {}
    /\ bucket_dir = ""
    /\ files = {}
    /\ restored_buckets \in {{}, {[name |-> BucketNames[1], public |-> TRUE]}}
    /\ restored = {}
    /\ restore_stats = NoRestoreStats

SIdle ==
    /\ remote = NoRemote
    /\ storage_dir = NoStorageDir
    /\ spc = "off"
    /\ entries = {}
    /\ bucket_dir = ""
    /\ files = {}
    /\ restored_buckets = {}
    /\ restored = {}
    /\ restore_stats = NoRestoreStats

\* backup's storage stage, download_all: a directory for every bucket, and
\* for every object whose move succeeded a file at bucket_dir.join(&name),
\* its parent directories created as needed; failed moves are counted and
\* leave no file.
download_all ==
    /\ spc = "backup"
    /\ \E written \in SUBSET remote.objects :
           storage_dir' =
               [dirs |-> remote.buckets,
                files |-> {[bucket |-> o.bucket, path |-> Segments(o.name)] :
                               o \in written}]
    /\ spc' = "read_dir"
    /\ UNCHANGED <<remote, entries, bucket_dir, files, restored_buckets, restored,
                   restore_stats>>
    /\ UNCHANGED <<tvars, xvars, bvars, rvars, fvars, lvars, cvars, gvars>>

\* restore_storage: `fs::read_dir(storage_dir).await?`
restore_storage_read_dir ==
    /\ spc = "read_dir"
    /\ \E ok \in BOOLEAN :
           IF ok
           THEN entries' = storage_dir.dirs /\ spc' = "entry"
           ELSE entries' = entries /\ spc' = "error"
    /\ UNCHANGED <<remote, storage_dir, bucket_dir, files, restored_buckets, restored,
                   restore_stats>>
    /\ UNCHANGED <<tvars, xvars, bvars, rvars, fvars, lvars, cvars, gvars>>

\* restore_storage: the next entry of the storage directory, in any order:
\* `client.create_bucket(&bucket_name, false).await?`, stats.buckets += 1,
\* `fs::read_dir(&bucket_dir).await?`; Ok(stats) once no entry is left.
restore_storage_entry ==
    /\ spc = "entry"
    /\ IF entries = {}
       THEN /\ spc' = "done"
            /\ UNCHANGED <<entries, bucket_dir, files, restored_buckets, restore_stats>>
       ELSE \E b \in entries :
            \E resp \in BackendCreate(restored_buckets, b) :
            \E ok \in BOOLEAN :
                /\ restored_buckets' = BackendBuckets(restored_buckets, b, FALSE, resp)
                /\ entries' = entries \ {b}
                /\ bucket_dir' = b
                /\ IF create_bucket(resp) = "Ok"
                   THEN /\ restore_stats' = [restore_stats EXCEPT !.buckets = @ + 1]
                        /\ IF ok
                           THEN files' = read_dir(storage_dir, b) /\ spc' = "file"
                           ELSE files' = files /\ spc' = "error"
                   ELSE /\ restore_stats' = restore_stats
                        /\ files' = files
                        /\ spc' = "error"
    /\ UNCHANGED <<remote, storage_dir, restored>>
    /\ UNCHANGED <<tvars, xvars, bvars, rvars, fvars, lvars, cvars, gvars>>

\* restore_storage: the next entry of the bucket directory, in any order: a
\* file is read and uploaded under its file name
\* (`client.upload(&bucket_name, &file_name, ..).await?`), anything else is
\* passed over; back to the storage directory once no entry is left.
restore_storage_file ==
    /\ spc = "file"
    /\ IF files = {}
       THEN /\ spc' = "entry"
            /\ UNCHANGED <<files, restored, restore_stats>>
       ELSE \E e \in files :
            \E ok \in BOOLEAN :
                /\ files' = files \ {e}
                /\ IF is_file(storage_dir, bucket_dir, e)
                   THEN IF ok
                        THEN /\ restored' = restored \cup
                                     {[bucket |-> bucket_dir, name |-> e]}
                             /\ restore_stats' = [restore_stats EXCEPT !.objects = @ + 1]
                             /\ spc' = "file"
                        ELSE /\ spc' = "error"
                             /\ UNCHANGED <<restored, restore_stats>>
                   ELSE /\ spc' = "file"
                        /\ UNCHANGED <<restored, restore_stats>>
    /\ UNCHANGED <<remote, storage_dir, entries, bucket_dir, restored_buckets>>
    /\ UNCHANGED <<tvars, xvars, bvars, rvars, fvars, lvars, cvars, gvars>>

SNext == download_all \/ restore_storage_read_dir \/ restore_storage_entry
         \/ restore_storage_file

(***************************************************************************)
(* One function artifact through a backup: the function stage of            *)
(* commands::backup::run writes it, restore_functions and                   *)
(* read_function_files (src/commands/restore.rs) read it back.  A JSON      *)
(* value is null, a string or a boolean; a file's content is its text and,  *)
(* when the text is a JSON object, that object.                             *)
(***************************************************************************)
JNull == [kind |-> "null", str |-> "", bool |-> FALSE]

JStr(str) == [kind |-> "string", str |-> str, bool |-> FALSE]

JBool(bool) == [kind |-> "bool", str |-> "", bool |-> bool]

\* `{}`: indexing a key it lacks yields null.
EmptyObject ==
    [slug |-> JNull, name |-> JNull, verify_jwt |-> JNull, entrypoint_path |-> JNull,
     import_map_path |-> JNull]

Text(text) == [text |-> text, json |-> FALSE, object |-> EmptyObject]

Json(text, object) == [text |-> text, json |-> TRUE, object |-> object]

FilePaths == {"index.ts", "lib/util.ts", "metadata.json"}

FileContents == {Text("export default 1"), Json("{}", EmptyObject)}

\* Option<String>: None is written as null, Some(s) as the string s.
OptionStrings(strs) == {JNull} \cup {JStr(x) : x \in strs}

FunctionBackup(slug, name, verify_jwt, entrypoint_path, import_map_path, fs) ==
    [slug |-> slug, name |-> name, verify_jwt |-> verify_jwt,
     entrypoint_path |-> entrypoint_path, import_map_path |-> import_map_path,
     files |-> fs]

NoFunction == FunctionBackup("", "", FALSE, JNull, JNull, <<>>)

\* The artifacts backup_all may return.
FunctionBackups ==
    {FunctionBackup("hello", name, verify_jwt, entrypoint_path, import_map_path, fs) :
        name \in {"hello", "Greeter"},
        verify_jwt \in BOOLEAN,
        entrypoint_path \in OptionStrings({"index.ts"}),
        import_map_path \in OptionStrings({"deno.json"}),
        fs \in UNION {[paths -> FileContents] : paths \in SUBSET FilePaths}}

\* backup: the serde_json::json! object written to metadata.json.
metadata_json(func) ==
    Json("(metadata)",
         [slug |-> JStr(func.slug),
          name |-> JStr(func.name),
          verify_jwt |-> JBool(func.verify_jwt),
          entrypoint_path |-> func.entrypoint_path,
          import_map_path |-> func.import_map_path])

\* backup: metadata.json is written first, then each file at
\* func_dir.join(&file.name); a later write to a path replaces the earlier.
write_function(func) ==
    [path \in DOMAIN func.files \cup {"metadata.json"} |->
        IF path \in DOMAIN func.files THEN func.files[path] ELSE metadata_json(func)]

\* restore_functions: the fields read from the parsed metadata.json, and
\* the files of the directory without metadata.json.
as_str(value, default) == IF value.kind = "string" THEN value.str ELSE default

as_bool(value, default) == IF value.kind = "bool" THEN value.bool ELSE default

as_option(value) == IF value.kind = "string" THEN value ELSE JNull

read_function_files(dir) == [path \in DOMAIN dir \ {"metadata.json"} |-> dir[path]]

read_function(dir) ==
    FunctionBackup(as_str(dir["metadata.json"].object.slug, ""),
                   as_str(dir["metadata.json"].object.name,
                          as_str(dir["metadata.json"].object.slug, "")),
                   as_bool(dir["metadata.json"].object.verify_jwt, TRUE),
                   as_option(dir["metadata.json"].object.entrypoint_path),
                   as_option(dir["metadata.json"].object.import_map_path),
                   read_function_files(dir))

GInit ==
    /\ captured \in FunctionBackups
    /\ func_dir = <<>>
    /\ deployed = NoFunction
    /\ gpc = "backup"
    /\ gcause = "none"

GIdle ==
    /\ captured = NoFunction
    /\ func_dir = <<>>
    /\ deployed = NoFunction
    /\ gpc = "off"
    /\ gcause = "none"

\* backup: the function's directory is written (`fs::write(..)?`).
backup_function ==
    /\ gpc = "backup"
    /\ \E ok \in BOOLEAN :
           IF ok
           THEN func_dir' = write_function(captured) /\ gpc' = "restore" /\ gcause' = gcause
           ELSE func_dir' = func_dir /\ gpc' = "error" /\ gcause' = "write"
    /\ UNCHANGED <<captured, deployed>>
    /\ UNCHANGED <<tvars, xvars, bvars, rvars, fvars, lvars, cvars, svars>>

\* restore_functions on that directory: `continue` without a metadata.json,
\* `serde_json::from_str(..)?`, the files read back and filtered,
\* `continue` when none is left, otherwise the FunctionBackup is built and
\* handed to deploy_function.
restore_function ==
    /\ gpc = "restore"
    /\ IF "metadata.json" \notin DOMAIN func_dir
       THEN gpc' = "skipped" /\ UNCHANGED <<deployed, gcause>>
       ELSE IF ~func_dir["metadata.json"].json
            THEN gpc' = "error" /\ gcause' = "from_str" /\ UNCHANGED deployed
            ELSE IF DOMAIN read_function_files(func_dir) = {}
                 THEN gpc' = "skipped" /\ UNCHANGED <<deployed, gcause>>
                 ELSE /\ deployed' = read_function(func_dir)
                      /\ gpc' = "deploy"
                      /\ gcause' = gcause
    /\ UNCHANGED <<captured, func_dir>>
    /\ UNCHANGED <<tvars, xvars, bvars, rvars, fvars, lvars, cvars, svars>>

\* `client.deploy_function(&backup).await?`
deploy_restored ==
    /\ gpc = "deploy"
    /\ \E ok \in BOOLEAN :
           IF ok
           THEN gpc' = "done" /\ gcause' = gcause
           ELSE gpc' = "error" /\ gcause' = "deploy_function"
    /\ UNCHANGED <<captured, func_dir, deployed>>
    /\ UNCHANGED <<tvars, xvars, bvars, rvars, fvars, lvars, cvars, svars>>

GNext == backup_function \/ restore_function \/ deploy_restored

(***************************************************************************)
(* Specifications.                                                         *)
(***************************************************************************)
NIdle == FIdle /\ LIdle /\ CIdle /\ SIdle /\ GIdle

InitTransform == TInit /\ XIdle /\ BInit /\ RIdle /\ NIdle

SpecTransform == InitTransform /\ [][TNext]_vars

InitTransfer == XInit /\ TIdle /\ BInit /\ RIdle /\ NIdle

SpecTransfer == InitTransfer /\ [][XNext]_vars

\* The transfer under a runtime that keeps polling the stream and a backend
\* that answers every request: a step that stays possible is taken.
SpecTransferFair == InitTransfer /\ [][XNext]_vars /\ WF_vars(XNext)

InitBucket == XIdle /\ TIdle /\ BInit /\ RIdle /\ NIdle

SpecBucket == InitBucket /\ [][BNext]_vars

InitRun == RInit /\ TIdle /\ XIdle /\ BInit /\ NIdle

SpecRun == InitRun /\ [][RNext]_vars

InitFunctions == FInit /\ TIdle /\ XIdle /\ BInit /\ RIdle /\ LIdle /\ CIdle /\ SIdle /\ GIdle

SpecFunctions == InitFunctions /\ [][FNext]_vars

InitListing == LInit /\ TIdle /\ XIdle /\ BInit /\ RIdle /\ FIdle /\ CIdle /\ SIdle /\ GIdle

SpecListing == InitListing /\ [][LNext]_vars

InitConfig == CInit /\ TIdle /\ XIdle /\ BInit /\ RIdle /\ FIdle /\ LIdle /\ SIdle /\ GIdle

SpecConfig == InitConfig /\ [][CNext]_vars

InitStorageRestore ==
    SInit /\ TIdle /\ XIdle /\ BInit /\ RIdle /\ FIdle /\ LIdle /\ CIdle /\ GIdle

SpecStorageRestore == InitStorageRestore /\ [][SNext]_vars

InitFunctionRoundTrip ==
    GInit /\ TIdle /\ XIdle /\ BInit /\ RIdle /\ FIdle /\ LIdle /\ CIdle /\ SIdle

SpecFunctionRoundTrip == InitFunctionRoundTrip /\ [][GNext]_vars

----
\* The managed-schema statements of the exact-line rules.
ManagedStatements == {DROP_AUTH, CREATE_AUTH, DROP_STORAGE, CREATE_STORAGE}

\* C5: transform is idempotent: transform(transform(x)) = transform(x).
C5_Idempotent == tpc = "twice" => again = result

\* C6: the output has as many lines as the input, and its i-th line is the
\* i-th input line or its disabled form.
C6_LinesPreserved ==
    tpc # "input" =>
        /\ Len(lines(result)) = Len(lines(sql))
        /\ \A i \in 1..Len(lines(sql)) :
               \/ lines(result)[i] = lines(sql)[i]
               \/ lines(result)[i] = commented(lines(sql)[i])

\* C7 as stated: a line is disabled exactly when it equals a managed-schema
\* statement or its trimmed form starts with the privileges prefix.
C7_ExactRule ==
    tpc # "input" =>
        \A i \in 1..Len(lines(result)) :
            LET l == lines(sql)[i]
            IN  lines(result)[i] =
                    IF \/ \E t \in ManagedStatements : l = <<t>>
                       \/ starts_with(trim(l), <<ADMIN_PREFIX>>)
                    THEN commented(l) ELSE l

\* C7 amended: a line is disabled exactly when its trimmed form equals a
\* managed-schema statement or starts with the privileges prefix; every
\* line of the output is otherwise the input line at the same position.
C7_TrimmedRule ==
    tpc # "input" =>
        /\ Len(lines(result)) <= Len(lines(sql))
        /\ \A i \in 1..Len(lines(result)) :
               LET l == lines(sql)[i]
               IN  lines(result)[i] =
                       IF \/ \E t \in ManagedStatements : trim(l) = <<t>>
                          \/ starts_with(trim(l), <<ADMIN_PREFIX>>)
                       THEN commented(l) ELSE l

\* C7 witness: a managed statement with surrounding whitespace was disabled
\* and an unrelated statement passed through.
C7_Witness ==
    /\ tpc = "once"
    /\ sql = <<SP, DROP_AUTH, NL, DROP_PUBLIC>>
    /\ result = <<DASHES, SP, SP, DROP_AUTH, NL, DROP_PUBLIC>>

----
Terminal == {"Succeeded", "Failed"}

\* The indices of the buckets the run is to move: all listed buckets, or the
\* one named bucket.
InScope == IF bucket_arg.some THEN {bi} ELSE 1..Len(buckets)

\* C1: the move of each enumerated object is started exactly once: never
\* twice, none skipped once the bucket's transfer has returned, and an
\* object is Pending exactly as long as its move has not been started.
C1_ExactlyOnce ==
    /\ \A b \in 1..Len(BucketNames) : \A i \in 1..MaxObjects : starts[b][i] <= 1
    /\ pc = "transfer" =>
           \A i \in 1..Len(objects) : (task[i] = "Pending") <=> (starts[bi][i] = 0)
    /\ pc = "accumulate" =>
           \A i \in 1..Len(objects) : starts[bi][i] = 1 /\ task[i] \in Terminal
    /\ pc = "done" =>
           \A b \in InScope : \A i \in 1..buckets[b].nobj : starts[b][i] = 1

\* C1 witness: a bucket of two objects was transferred with concurrency 1,
\* one move succeeded and one failed.
C1_Witness ==
    /\ pc = "accumulate"
    /\ parallel = 1
    /\ Len(objects) = 2
    /\ \E i, j \in 1..Len(objects) : task[i] = "Succeeded" /\ task[j] = "Failed"

\* C2: the stats returned for a bucket satisfy objects + errors = number of
\* objects enumerated for the bucket.
C2_BucketStatsAdditive ==
    pc = "accumulate" => bucket_stats.objects + bucket_stats.errors = Len(objects)

\* C2 witness: a bucket's stats came back with a success and a failure.
C2_Witness ==
    /\ pc = "accumulate"
    /\ bucket_stats.objects >= 1
    /\ bucket_stats.errors >= 1

\* The number of objects enumerated in the whole run.
RECURSIVE Enumerated(_)
Enumerated(bs) == IF bs = <<>> THEN 0 ELSE Head(bs).nobj + Enumerated(Tail(bs))

\* The buckets the run is to move.
Scope == IF bucket_arg.some THEN <<buckets[bi]>> ELSE buckets

\* C3: the stats returned by sync_all / download_all satisfy objects +
\* errors = objects enumerated in the run, and errors = failed moves.
C3_RunStatsAdditive ==
    pc = "done" =>
        /\ stats.errors = failures
        /\ stats.objects + stats.errors = Enumerated(Scope)

ListingCalls ==
    {"list_buckets", "bucket_not_found", "create_bucket", "create_dir", "list_objects"}

\* C4: a failed object move never ends the run: the run only ends in error
\* through a listing or creation call, every object of the bucket and of the
\* later buckets is still attempted, the bucket's failure counter counts each
\* failed move, and the run returns its stats.
C4_FailureDoesNotAbort ==
    /\ pc = "error" => cause \in ListingCalls
    /\ pc = "accumulate" =>
           /\ \A i \in 1..Len(objects) : starts[bi][i] = 1
           /\ bucket_stats.errors =
                  Cardinality({i \in 1..Len(objects) : task[i] = "Failed"})
    /\ pc = "done" =>
           \A b \in InScope : \A i \in 1..buckets[b].nobj : starts[b][i] = 1

\* C4 witness: both moves of the first bucket failed, and the run went on to
\* the second bucket, moved its object and returned its stats.
C4_Witness ==
    /\ pc = "done"
    /\ Len(buckets) = 2
    /\ buckets[1].nobj = 2
    /\ buckets[2].nobj = 1
    /\ failures = 2
    /\ stats.objects = 1
    /\ stats.buckets = 2

\* C8: the load fails exactly when psql's stderr contains "ERROR", whatever
\* its exit status.
C8_FailsIffERROR ==
    (load.ran /\ load.found) =>
        ((load.result = "Err") <=> contains_ERROR(load.stderr))

\* C9: create_bucket answered "already exists" returns Ok and leaves the
\* target as it was; and after the first Ok call for a name the target holds
\* exactly one bucket of that name, the same one after every later call.
C9_CreateIdempotent ==
    /\ (cb.n > 0 /\ cb.resp = "already exists") =>
           /\ cb.result = "Ok"
           /\ targetBuckets = cb.before
    /\ (cb.n > 0 /\ cb.result = "Ok") =>
           Cardinality(Named(targetBuckets, cb.name)) = 1
    /\ \A k \in 1..Len(BucketNames) :
           firstAfter[k].seen =>
               Named(targetBuckets, BucketNames[k]) = firstAfter[k].buckets

\* C9 witness: a third call for an existing bucket, with the other
\* visibility, was answered "already exists" and returned Ok.
C9_Witness ==
    /\ cb.n = 3
    /\ cb.resp = "already exists"
    /\ cb.result = "Ok"
    /\ \E b \in targetBuckets : b.name = cb.name /\ b.public # cb.public

Has(e) == \E k \in 1..Len(events) : events[k] = e

Pos(e) == CHOOSE k \in 1..Len(events) : events[k] = e

\* Stage b, if started, started after stage a had ended.
EndedBeforeStart(a, b) ==
    Has(<<b, "start">>) =>
        /\ Has(<<a, "end">>)
        /\ Pos(<<a, "end">>) < Pos(<<b, "start">>)

StageNames == {"db", "storage", "functions"}

\* C10 as stated: relational stage, then object sync, then function sync.
C10_DbStorageFunctions ==
    /\ EndedBeforeStart("db", "storage")
    /\ EndedBeforeStart("db", "functions")
    /\ Has(<<"storage", "start">>) => EndedBeforeStart("storage", "functions")

\* C10 amended: the stages never overlap and the relational stage is first;
\* the object stage precedes the function stage in migrate and restore runs,
\* and the function stage precedes the object stage in backup runs.
C10_Sequential ==
    /\ EndedBeforeStart("db", "storage")
    /\ EndedBeforeStart("db", "functions")
    /\ \A a, b \in StageNames :
           (a # b /\ Has(<<a, "start">>) /\ Has(<<b, "start">>)) =>
               \/ Has(<<a, "end">>) /\ Pos(<<a, "end">>) < Pos(<<b, "start">>)
               \/ Has(<<b, "end">>) /\ Pos(<<b, "end">>) < Pos(<<a, "start">>)
    /\ IF cmd = "backup"
       THEN Has(<<"functions", "start">>) => EndedBeforeStart("functions", "storage")
       ELSE Has(<<"storage", "start">>) => EndedBeforeStart("storage", "functions")

\* C10 witness: a backup run with all three stages has returned.
C10_Witness ==
    /\ cmd = "backup"
    /\ outcome = "Ok"
    /\ events = << <<"db", "start">>, <<"db", "end">>,
                   <<"functions", "start">>, <<"functions", "end">>,
                   <<"storage", "start">>, <<"storage", "end">> >>

----
FunctionsOf(reg, slug) == {f \in reg : f.slug = slug}

\* C11: deploy_function issues a create exactly when the artifact's slug is
\* absent from the list it fetched from the target for that deploy, and
\* otherwise an update addressed by that slug; the target never holds two
\* functions of a slug, and holds exactly one after a deploy that succeeded.
C11_CreateIffAbsent ==
    /\ request.kind # "none" =>
           /\ request.listed = ListedSlugs(request.before)
           /\ (request.kind = "create") <=> (request.slug \notin request.listed)
           /\ (request.kind = "update") <=> (request.slug \in request.listed)
           /\ request.kind = "update" => request.path = request.slug
           /\ fpc = "request" => request.slug = artifacts[fi].slug
    /\ \A k \in 1..Len(Slugs) : Cardinality(FunctionsOf(registry, Slugs[k])) <= 1
    /\ request.resp = "success" =>
           Cardinality(FunctionsOf(registry, request.slug)) = 1

\* C11 witness: `hello` was absent from the target, the first restore
\* created it, and the second restore updated it in place.
C11_Witness ==
    /\ fpc = "done"
    /\ frun = 2
    /\ artifacts = <<[slug |-> "hello", kind |-> "function"]>>
    /\ request.kind = "update"
    /\ request.resp = "success"
    /\ registry = {[slug |-> "hello", id |-> 1, rev |-> 2]}

\* C12: a deploy the registry refused does not end restore_functions: the
\* batch only ends in error through a failed listing, every function
\* directory of the backup is deployed, and the successful ones are counted.
C12_DeployFailureDoesNotAbort ==
    /\ fpc = "error" => fcause # "deploy"
    /\ fpc = "done" =>
           /\ \A j \in 1..Len(artifacts) :
                  artifacts[j].kind = "function" => <<frun, j>> \in attempted
           /\ fstats <= Cardinality({j \in 1..Len(artifacts) : <<frun, j>> \in attempted})

----
\* A later stage (object sync or function sync) was started in the run.
LaterStageStarted == Has(<<"storage", "start">>) \/ Has(<<"functions", "start">>)

\* The export tool was run and exited non-zero, or could not be run.
DumpFailed == dump.ran /\ (~dump.found \/ ~dump.exit_ok)

\* The load tool was run and failed: it could not be run, exited non-zero,
\* or reported an ERROR.
LoadFailed ==
    load.ran /\ (~load.found \/ ~load.exit_ok \/ contains_ERROR(load.stderr))

\* C13: if the dump fails or the load fails, the run ends with an error at
\* that point: no load after a failed dump, no object sync or function sync
\* after a failed load.
C13_FailureEndsRun ==
    /\ DumpFailed => (outcome = "Err" /\ ~load.ran /\ ~LaterStageStarted)
    /\ LoadFailed => (outcome = "Err" /\ ~LaterStageStarted)

\* The run asks for the stage: the command's flag and, for a restore, the
\* backup's metadata.
Requested(stage) ==
    IF stage = "storage"
    THEN args.include_storage /\ (cmd = "restore" => args.md_storage)
    ELSE args.include_functions /\ (cmd = "restore" => args.md_functions)

\* A project the stage needs has no service key.
KeyMissing ==
    CASE cmd = "migrate" -> ~args.src_key \/ ~args.tgt_key
      [] cmd = "backup" -> ~args.src_key
      [] cmd = "restore" -> ~args.tgt_key
      [] OTHER -> FALSE

\* C14: when a storage or function stage is requested and a project it needs
\* has no service key, no operation of that stage is performed, and a run
\* that got past its confirmation and its relational stage does not end with
\* a success outcome.
C14_MissingKeyIsFatal ==
    \A stage \in {"storage", "functions"} :
        (Requested(stage) /\ KeyMissing) =>
            /\ ~Has(<<stage, "start">>)
            /\ ~(outcome = "Ok" /\ Has(<<"db", "end">>))

\* C15: schema-only and data-only requested together are rejected before
\* pg_dump is invoked; pg_dump is never passed both mode flags.
C15_BothModesRejected ==
    /\ (args.schema_only /\ args.data_only) => ~dump.invoked
    /\ dump.flags # {"--schema-only", "--data-only"}

----
RECURSIVE SumSizes(_)
\* The sum of the sizes of a set of stored objects.
SumSizes(S) ==
    IF S = {} THEN 0
    ELSE LET o == CHOOSE x \in S : TRUE IN o.size + SumSizes(S \ {o})

\* The objects of the current bucket whose fetch and store both succeeded.
Moved == {i \in 1..Len(objects) : task[i] = "Succeeded"}

\* The destination's copies of the current bucket's moved objects.
MovedCopies ==
    {[bucket |-> buckets[bi].name, name |-> objects[i], size |-> payload(objects[i])] :
        i \in Moved}

\* C16: the object count and byte count a sync returns are the number of
\* objects whose fetch and store both succeeded and the sum of the lengths of
\* the payloads fetched for them, per bucket and for the run; the destination
\* holds each of them with the length of the source's payload.
C16_CountsAreMovedPayloads ==
    /\ pc = "accumulate" =>
           /\ bucket_stats.objects = Cardinality(Moved)
           /\ bucket_stats.bytes = SumSizes(MovedCopies)
           /\ MovedCopies \subseteq stored
    /\ pc = "done" =>
           /\ stats.objects = Cardinality(stored)
           /\ stats.bytes = SumSizes(stored)
    /\ \A o \in stored : o.size = payload(o.name)

\* C16 witness: a full sync of the one bucket `avatars`, holding objects of
\* 10 and 20 bytes and absent from the target, returned 1 bucket / 2 objects
\* / 30 bytes / 0 failures and the target holds both objects.
C16_Witness ==
    /\ pc = "done"
    /\ mode = "sync"
    /\ ~bucket_arg.some
    /\ Len(buckets) = 1
    /\ buckets[1].nobj = 2
    /\ stats = [buckets |-> 1, objects |-> 2, bytes |-> 30, errors |-> 0]
    /\ targetBuckets = {[name |-> "avatars", public |-> TRUE]}
    /\ stored = {[bucket |-> "avatars", name |-> 1, size |-> 10],
                 [bucket |-> "avatars", name |-> 2, size |-> 20]}

\* C17: the bucket count a sync returns is the number of buckets in scope: n
\* for all n source buckets, 1 for one named bucket.
C17_BucketCountIsScope ==
    pc = "done" => stats.buckets = Len(Scope)

ListingFailures == {"list_buckets", "list_objects"}

\* C20: a failure while listing the buckets or the objects of a bucket ends
\* the run with an error instead of stats, and no object of that bucket or of
\* a later bucket is attempted.
C20_ListingFailureIsFatal ==
    /\ cause \in ListingFailures => pc = "error"
    /\ (pc = "error" /\ cause \in ListingFailures) =>
           \A b \in 1..Len(BucketNames) : \A i \in 1..MaxObjects :
               b >= bi => starts[b][i] = 0

\* C20 witness: sync_all moved the object of the first bucket, and the
\* listing of the second bucket's objects failed.
C20_Witness ==
    /\ pc = "error"
    /\ cause = "list_objects"
    /\ ~bucket_arg.some
    /\ bi = 2
    /\ stored = {[bucket |-> "avatars", name |-> 1, size |-> 10]}
    /\ buckets[2].nobj >= 1

----
\* C18: list_objects returns all the objects of the bucket, whatever their
\* number, more than one page of 1000 included.
C18_ListsEveryObject ==
    (listed_objects.done /\ listed_objects.ok) => listed_objects.len = held

\* The caller configured a concurrency bound: --parallel for storage sync, a
\* parallel_transfers value in the configuration file for the runs that read
\* it; a StorageTransfer built by new alone has none.
Configured ==
    CASE caller = "new" -> FALSE
      [] caller = "storage sync" -> cli_parallel.some
      [] OTHER -> config_file.found /\ config_file.defaults
                      /\ config_file.parallel_transfers.some

\* C19: the engine's concurrency bound is 4 whenever the caller does not
\* configure one.
C19_DefaultIsFour ==
    (engine.built /\ ~Configured) => engine.parallel = 4

----
\* The run was cancelled: a migrate with --dry-run, or a prompt answered with
\* anything other than y / Y.
Cancelled ==
    \/ cmd = "migrate" /\ args.dry_run
    \/ cmd \in {"migrate", "restore"} /\ input # NotAsked /\ input \notin {"y", "Y"}

\* C21: a migrate run with dry-run set or whose prompt is declined, and a
\* restore run whose prompt is declined, invoke no dump, no load and no
\* storage or function operation, and end with a success outcome.
C21_CancelledRunChangesNothing ==
    Cancelled =>
        /\ ~dump.ran
        /\ ~load.ran
        /\ events = <<>>
        /\ rpc = "done" => outcome = "Ok"
        /\ input # NotAsked => (rpc = "done" /\ outcome = "Ok")

\* C21 witness: a migrate run without --yes and --dry-run whose prompt was
\* answered "yes" has returned Ok.
C21_Witness ==
    /\ cmd = "migrate"
    /\ ~args.dry_run
    /\ ~args.yes
    /\ args.include_storage
    /\ input = "yes"
    /\ rpc = "done"
    /\ outcome = "Ok"

\* C23: a migrate run asked to migrate functions starts the function stage
\* after the relational and object stages; a run that returns Ok has run it.
C23_MigrateRunsFunctions ==
    (cmd = "migrate" /\ args.include_functions /\ outcome = "Ok" /\ Has(<<"db", "end">>)) =>
        /\ Has(<<"functions", "start">>)
        /\ EndedBeforeStart("db", "functions")
        /\ Has(<<"storage", "start">>) => EndedBeforeStart("storage", "functions")

\* The stages the backup run was asked for.
BackupStages ==
    {"db"} \cup (IF args.include_functions THEN {"functions"} ELSE {})
           \cup (IF args.include_storage THEN {"storage"} ELSE {})

\* C29: backup writes metadata.json only after every requested stage has
\* ended successfully, so a failed or unfinished backup has none; and a
\* restore from a directory without metadata.json fails before any load,
\* upload or deploy.
C29_NoRestoreOfUnfinishedBackup ==
    /\ (cmd = "backup" /\ "metadata.json" \in backup_dir) =>
           /\ \A st \in BackupStages : Has(<<st, "end">>)
           /\ outcome = "Ok"
    /\ (cmd = "backup" /\ outcome = "Err") => "metadata.json" \notin backup_dir
    /\ (cmd = "restore" /\ ~args.has_metadata) =>
           /\ ~load.ran
           /\ events = <<>>
           /\ input = NotAsked
           /\ rpc = "done" => outcome = "Err"

\* C29 witness: a restore asked for everything, from a directory without
\* metadata.json, has failed.
C29_Witness ==
    /\ cmd = "restore"
    /\ ~args.has_metadata
    /\ args.yes /\ args.include_storage /\ args.include_functions /\ args.tgt_key
    /\ rpc = "done"
    /\ outcome = "Err"

----
\* C24: during a bucket transfer with concurrency c >= 1 at most c moves are
\* in flight, and while unstarted objects remain and fewer than c moves are
\* in flight the start of a further move is possible.
C24_BoundedConcurrency ==
    (pc = "transfer" /\ parallel >= 1) =>
        /\ Cardinality(InFlight) <= parallel
        /\ (nextObj < Len(objects) /\ Cardinality(InFlight) < parallel) =>
               ENABLED StartMove

\* C24 witness: with concurrency 2 two moves are in flight and a third
\* object is waiting.
C24_Witness ==
    /\ pc = "transfer"
    /\ parallel = 2
    /\ Cardinality(InFlight) = 2
    /\ nextObj < Len(objects)

\* C25: the progress counter is updated once by each completing move, so it
\* equals the number of completed moves at every moment of the transfer and
\* the number of enumerated objects when the transfer has returned.
C25_CounterCountsCompletions ==
    /\ pc = "transfer" =>
           pb = Cardinality({i \in 1..Len(objects) : task[i] \in Terminal})
    /\ pc = "accumulate" => pb = Len(objects)

\* C26: a bucket that a sync creates on the target has the visibility of the
\* source bucket of that name.
C26_VisibilityCopied ==
    [][pc = "create_bucket" =>
           \A b \in targetBuckets' \ targetBuckets :
               \E j \in 1..Len(srcBuckets) :
                   /\ srcBuckets[j].name = b.name
                   /\ srcBuckets[j].public = b.public]_vars

\* C26 witness: the sync found an empty target and created the public
\* bucket as public and the private bucket as private.
C26_Witness ==
    /\ mode = "sync"
    /\ [name |-> "avatars", public |-> TRUE] \in targetBuckets
    /\ [name |-> "docs", public |-> FALSE] \in targetBuckets
    /\ pc = "done"

\* C28: whatever concurrency value reached the engine, a bucket transfer
\* whose fetches and stores all complete eventually returns its stats.
C28_TransferReturns ==
    (pc = "transfer") ~> (pc = "accumulate")

----
\* The objects the backup wrote under storage/<bucket>/<object-path>.
Written ==
    {o \in remote.objects :
        [bucket |-> o.bucket, path |-> Segments(o.name)] \in storage_dir.files}

\* C22: a restore that has returned its stats has uploaded every object the
\* backup wrote, nested ones included, to its bucket under its object path,
\* and nothing else.
C22_StorageConsumedWholly ==
    spc = "done" => restored = Written

\* C27: every bucket restore_storage creates on the target is public.
C27_RestoredBucketsPublic ==
    [][spc = "entry" => \A b \in restored_buckets' \ restored_buckets : b.public]_vars

\* C30: restore neither fails on nor passes over a function directory that
\* backup wrote, and the artifact it deploys is the artifact backup captured.
C30_FunctionRoundTrip ==
    /\ gpc # "skipped"
    /\ gpc = "error" => gcause # "from_str"
    /\ gpc \in {"deploy", "done"} => deployed = captured

====
